---- MODULE Spec2Model ----
(***************************************************************************)
(* Model of kge/model/kge_model.py: the relational scorer's broadcast      *)
(* algebra (RelationalScorer), embedder construction (KgeEmbedder) and the *)
(* model facade (KgeModel) with its save/load round trip.                  *)
(*                                                                         *)
(* Tensors: an embedding row is an opaque value (a natural number), an     *)
(* embedding batch is a sequence of rows, a flat score tensor is a         *)
(* sequence of scores and a 2-D score tensor is a sequence of rows, each a *)
(* sequence of scores.  Exceptions are results whose err field names the   *)
(* exception class; msg is the message as a sequence of text pieces.       *)
(***************************************************************************)
EXTENDS Integers, Sequences, FiniteSets, TLC

VARIABLES config, scorer, model, saved, loaded, call, ret

vars == <<config, scorer, model, saved, loaded, call, ret>>

\* ------------------------------------------------------------------ bounds
\* largest number of rows of a batch handed to the scorer directly
MaxRows == 2
\* depth of nested Python frames at which the interpreter raises RecursionError
StackLimit == 4
\* dataset.num_entities and dataset.num_relations
NumEntities == 2
NumRelations == 2
\* largest number of custom options in the entity embedder's scope
MaxCustom == 2

\* values an embedding row can take
EmbVals == {1, 2}

\* Python's None; no batch given to the facade is empty, so the empty
\* sequence is free to stand for it
None == <<>>

\* ------------------------------------------------------- results, messages
Ok(v) == [err |-> "none", msg |-> <<>>, value |-> v]

Raise(e, m) == [err |-> e, msg |-> m, value |-> None]

\* a message mentions x when x is one of its pieces
Mentions(m, x) == \E i \in 1..Len(m) : m[i] = x

\* ----------------------------------------------------------- tensor helpers
\* torch.Tensor.repeat_interleave(k, 0): every row k times, contiguously
repeat_interleave(x, k) == [j \in 1..(Len(x) * k) |-> x[((j - 1) \div k) + 1]]

\* torch.Tensor.repeat((n, 1)): the whole batch n times
repeat(x, n) == [j \in 1..(Len(x) * n) |-> x[((j - 1) % Len(x)) + 1]]

\* torch.Tensor.view(n, -1) of a tensor of Len(out) scores, n >= 1: row-major
view(out, n) ==
    LET k == Len(out) \div n
    IN  [i \in 1..n |-> [j \in 1..k |-> out[(i - 1) * k + j]]]

\* torch.cat((a, b), dim=1): rows joined side by side
cat(a, b) == [i \in 1..Len(a) |-> a[i] \o b[i]]

\* ------------------------------------------------------- RelationalScorer
\* the scorer classes: the base class as written, and a subclass that
\* overrides score_emb_spo only ("the quick way")
ScorerClasses == {"RelationalScorer", "SpoScorer"}

\* the score a concrete scorer gives one embedding triple; the formula is the
\* variant's, so it is kept symbolic: the triple itself
Score(s, p, o) == [s |-> s, p |-> p, o |-> o]

\* a subclass's score_emb_spo: row-wise scores of aligned batches
primitive(s_emb, p_emb, o_emb) ==
    [i \in 1..Len(p_emb) |-> Score(s_emb[i], p_emb[i], o_emb[i])]

\* what one scorer call did: its result, the deepest frame it reached and
\* how often it ran a subclass's primitive
Done(r, frames, prim) == [r |-> r, frames |-> frames, prim |-> prim]

\* assert s_emb.size(0) == n and o_emb.size(0) == n
assert_spo(s_emb, o_emb, n) == Len(s_emb) = n /\ Len(o_emb) = n

\* the assertion with >= for ==
assert_sp_mut(s_emb, n) == Len(s_emb) >= n

\* assert s_emb.size(0) == n
assert_sp(s_emb, n) == Len(s_emb) = n

\* assert o_emb.size(0) == n
assert_po(o_emb, s_emb, n) == Len(o_emb) = n

\* s_embs = s_emb.repeat_interleave(n_o, 0)
sp_s_embs(s_emb, n_o) == repeat_interleave(s_emb, n_o)

\* p_embs = p_emb.repeat_interleave(n_o, 0)
sp_p_embs(p_emb, n_o) == repeat_interleave(p_emb, n_o)

\* o_emb block-repeated where it is to be tiled
sp_o_embs_mut(o_emb, n) == repeat_interleave(o_emb, n)

\* o_embs = o_emb.repeat((n, 1))
sp_o_embs(o_emb, n) == repeat(o_emb, n)

\* s_emb block-repeated where it is to be tiled
po_s_embs_mut(s_emb, n) == repeat_interleave(s_emb, n)

\* s_embs = s_emb.repeat((n, 1))
po_s_embs(s_emb, n) == repeat(s_emb, n)

\* p_embs = p_emb.repeat_interleave(n_s, 0)
po_p_embs(p_emb, n_s) == repeat_interleave(p_emb, n_s)

\* o_embs = o_emb.repeat_interleave(n_s, 0)
po_o_embs(o_emb, n_s) == repeat_interleave(o_emb, n_s)

\* raise ValueError('cannot handle combine="{}".format(combine)'): the call to
\* format is inside the string literal, so the text is raised as written
unsupported(combine) ==
    Raise("ValueError", <<"cannot handle combine=\"", "{}", "\".format(combine)">>)

\* return out.view(n, -1), or the exception the primitive call let through
finish(d, n) ==
    IF d.r.err = "none" THEN Done(Ok(view(d.r.value, n)), d.frames, d.prim) ELSE d

RECURSIVE score_emb(_, _, _, _, _, _)

\* frame `depth` runs score_emb_spo
score_emb_spo(cls, s_emb, p_emb, o_emb, depth) ==
    IF depth > StackLimit
    THEN Done(Raise("RecursionError", <<"maximum recursion depth exceeded">>),
              depth - 1, 0)
    ELSE IF cls = "SpoScorer"
         THEN Done(Ok(primitive(s_emb, p_emb, o_emb)), depth, 1)
         ELSE score_emb(cls, s_emb, p_emb, o_emb, "spo", depth + 1)

\* frame `depth` runs score_emb
score_emb(cls, s_emb, p_emb, o_emb, combine, depth) ==
    LET n == Len(p_emb)
        fail(e, m) == Done(Raise(e, m), depth, 0)
    IN  IF depth > StackLimit
        THEN Done(Raise("RecursionError", <<"maximum recursion depth exceeded">>),
                  depth - 1, 0)
        ELSE IF combine = "spo"
        THEN IF ~assert_spo(s_emb, o_emb, n)
             THEN fail("AssertionError", <<>>)
             ELSE finish(score_emb_spo(cls, s_emb, p_emb, o_emb, depth + 1), n)
        ELSE IF combine = "sp*"
        THEN IF ~assert_sp(s_emb, n)
             THEN fail("AssertionError", <<>>)
             ELSE LET n_o == Len(o_emb)
                  IN  finish(score_emb_spo(cls, sp_s_embs(s_emb, n_o),
                                           sp_p_embs(p_emb, n_o),
                                           sp_o_embs(o_emb, n), depth + 1), n)
        ELSE IF combine = "*po"
        THEN IF ~assert_po(o_emb, s_emb, n)
             THEN fail("AssertionError", <<>>)
             ELSE LET n_s == Len(s_emb)
                  IN  finish(score_emb_spo(cls, po_s_embs(s_emb, n),
                                           po_p_embs(p_emb, n_s),
                                           po_o_embs(o_emb, n_s), depth + 1), n)
        ELSE Done(unsupported(combine), depth, 0)

\* ------------------------------------------------------------------ Config
\* The configuration service: an ordered mapping from dotted keys to typed
\* values.  t is the value's Python type, v its text.
Entry(k, t, v) == [key |-> k, t |-> t, v |-> v]

has(cfg, k) == \E i \in 1..Len(cfg) : cfg[i].key = k

at(cfg, k) == CHOOSE i \in 1..Len(cfg) : cfg[i].key = k

\* Config.get(key): the value, or KeyError when the key is absent
get(cfg, k) == IF has(cfg, k) THEN Ok(cfg[at(cfg, k)]) ELSE Raise("KeyError", <<k>>)

\* Config.set(key, value): fails when the key is not in the schema or the
\* value's type is not the type of the key's current value
set(cfg, k, t, v) ==
    IF ~has(cfg, k) THEN Raise("ValueError", <<"key ", k, " not present">>)
    ELSE IF cfg[at(cfg, k)].t # t
         THEN Raise("ValueError", <<"key ", k, " has incorrect type">>)
         ELSE Ok([cfg EXCEPT ![at(cfg, k)] = Entry(k, t, v)])

\* Config.clone(): an independent copy
clone(cfg) == cfg

\* option names an embedder scope may hold
OptionNames == {"type", "dim", "initialize", "dropout"}

\* Config.flatten(config.get(key)): the options under key, by name, in order
flatten(cfg, key) ==
    LET under(e) == \E nm \in OptionNames : e.key = key \o "." \o nm
        sub == SelectSeq(cfg, under)
    IN  [i \in 1..Len(sub) |->
            [name |-> CHOOSE nm \in OptionNames : sub[i].key = key \o "." \o nm,
             t |-> sub[i].t, v |-> sub[i].v]]

\* ------------------------------------------------------------- KgeEmbedder
\* custom_options = Config.flatten(...); del custom_options["type"]
custom_options(cfg, key) ==
    LET notType(o) == o.name # "type" IN SelectSeq(flatten(cfg, key), notType)

\* dummy_config bound to the shared configuration object itself
dummy_config_mut(cfg) == [cell |-> "shared", heap |-> [shared |-> cfg, dummy |-> cfg]]

\* dummy_config = self.config.clone(): a second configuration object; cell
\* names the object dummy_config refers to
dummy_config(cfg) ==
    [cell |-> "dummy", heap |-> [shared |-> cfg, dummy |-> clone(cfg)]]

\* for key, value in custom_options.items(): dummy_config.set(type.key, value),
\* a ValueError re-raised naming configuration_key and key; from option i on
RECURSIVE verify(_, _, _, _, _)
verify(d, opts, i, embedder_type, configuration_key) ==
    IF i > Len(opts) THEN Ok(d.heap)
    ELSE LET r == set(d.heap[d.cell], embedder_type \o "." \o opts[i].name,
                      opts[i].t, opts[i].v)
         IN  IF r.err = "ValueError"
             THEN [err |-> "ValueError",
                   msg |-> <<"key ", configuration_key, ".", opts[i].name,
                             " invalid or of incorrect type">>,
                   value |-> d.heap]
             ELSE verify([d EXCEPT !.heap[d.cell] = r.value], opts, i + 1,
                         embedder_type, configuration_key)

\* KgeEmbedder.get_option(name): the custom option, else the type's default
get_option(cfg, configuration_key, embedder_type, name) ==
    LET custom == get(cfg, configuration_key \o "." \o name)
    IN  IF custom.err = "KeyError" THEN get(cfg, embedder_type \o "." \o name)
        ELSE custom

\* what a constructor call did: its result, the steps it ran and the shared
\* configuration it leaves
Built(r, steps, cfg) == [r |-> r, steps |-> steps, config |-> cfg]

\* self.dim = self.get_option("dim"), and the embedder the constructor leaves
init_dim(shared, configuration_key, embedder_type, dim) ==
    IF dim.err # "none" THEN Built(dim, <<"type", "verify", "dim">>, shared)
    ELSE Built(Ok([configuration_key |-> configuration_key,
                   embedder_type |-> embedder_type,
                   dim |-> dim.value.v,
                   vocab_size |-> 0,
                   table |-> None]),
               <<"type", "verify", "dim">>, shared)

\* the constructor after the verification loop, v its outcome
init_verified(v, configuration_key, embedder_type) ==
    IF v.err # "none"
    THEN Built(Raise(v.err, v.msg), <<"type", "verify">>, v.value.shared)
    ELSE init_dim(v.value.shared, configuration_key, embedder_type,
                  get_option(v.value.shared, configuration_key, embedder_type, "dim"))

\* the constructor after self.embedder_type = config.get(key + ".type"), ty
\* the outcome of that get
init_typed(cfg, configuration_key, ty) ==
    IF ty.err # "none" THEN Built(ty, <<"type">>, cfg)
    ELSE init_verified(verify(dummy_config(cfg),
                              custom_options(cfg, configuration_key),
                              1, ty.value.v, configuration_key),
                       configuration_key, ty.value.v)

\* KgeEmbedder.__init__(config, dataset, configuration_key)
KgeEmbedder_init(cfg, configuration_key) ==
    init_typed(cfg, configuration_key, get(cfg, configuration_key \o ".type"))

\* the subclass constructor after super().__init__, b its outcome
allocate(b, vocab_size, init) ==
    IF b.r.err # "none" THEN b
    ELSE Built(Ok([b.r.value EXCEPT !.vocab_size = vocab_size, !.table = init]),
               b.steps \o <<"table">>, b.config)

\* a concrete embedder class of kge.model: the base constructor, then the
\* embedding table (vocab_size rows), randomly initialised to `init`
LookupEmbedder(cfg, configuration_key, vocab_size, init) ==
    allocate(KgeEmbedder_init(cfg, configuration_key), vocab_size, init)

\* the embedder classes the module kge.model holds
ModuleClasses == {"LookupEmbedder"}

\* the second try block of create: getattr(module, class_name)(...), cn the
\* outcome of config.get(embedder_type + ".class_name")
create_class(cfg, configuration_key, vocab_size, init, cn) ==
    IF cn.err # "none"
    THEN Built(Raise("Exception",
                     <<"Can't find ", configuration_key, ".type in config">>),
               <<>>, cfg)
    ELSE IF cn.value.v \notin ModuleClasses
    THEN Built(Raise("AttributeError",
                     <<"module 'kge.model' has no attribute '", cn.value.v, "'">>),
               <<>>, cfg)
    ELSE LookupEmbedder(cfg, configuration_key, vocab_size, init)

\* the first try block of create, ty the outcome of config.get(key + ".type");
\* the bare except turns either KeyError into the same Exception
create_typed(cfg, configuration_key, vocab_size, init, ty) ==
    create_class(cfg, configuration_key, vocab_size, init,
                 IF ty.err = "none" THEN get(cfg, ty.value.v \o ".class_name") ELSE ty)

\* KgeEmbedder.create(config, dataset, configuration_key, vocab_size)
create(cfg, configuration_key, vocab_size, init) ==
    create_typed(cfg, configuration_key, vocab_size, init,
                 get(cfg, configuration_key \o ".type"))

\* ------------------------------------------------------ scorer-level calls
\* what the variables hold while no call has been made
NoCall == [op |-> "none"]

NoRet == Done(Ok(None), 0, 0)

Batches == UNION {[1..m -> EmbVals] : m \in 0..MaxRows}

\* the batch whose row count is n = p_emb.size(0) has at least one row
PBatches == UNION {[1..m -> EmbVals] : m \in 1..MaxRows}

Modes == {"spo", "sp*", "*po", "s*o", "spo*"}

InitScorer ==
    /\ scorer \in ScorerClasses
    /\ config = None
    /\ model = None
    /\ saved = None
    /\ loaded = None
    /\ call = NoCall
    /\ ret = NoRet

\* scorer.score_emb(s_emb, p_emb, o_emb, combine)
ScoreEmb ==
    /\ call = NoCall
    /\ \E s_emb \in Batches, p_emb \in PBatches, o_emb \in Batches, combine \in Modes :
        /\ call' = [op |-> "score_emb", s |-> s_emb, p |-> p_emb, o |-> o_emb,
                    combine |-> combine]
        /\ ret' = score_emb(scorer, s_emb, p_emb, o_emb, combine, 1)
        /\ UNCHANGED <<config, scorer, model, saved, loaded>>

\* scorer.score_emb_spo(s_emb, p_emb, o_emb) on aligned batches
ScoreEmbSpo ==
    /\ call = NoCall
    /\ \E n \in 1..MaxRows :
        \E s_emb \in [1..n -> EmbVals], p_emb \in [1..n -> EmbVals],
           o_emb \in [1..n -> EmbVals] :
            /\ call' = [op |-> "score_emb_spo", s |-> s_emb, p |-> p_emb,
                        o |-> o_emb, combine |-> "spo"]
            /\ ret' = score_emb_spo(scorer, s_emb, p_emb, o_emb, 1)
            /\ UNCHANGED <<config, scorer, model, saved, loaded>>

\* the caller takes the result (or the exception); the next call can start
Return ==
    /\ call # NoCall
    /\ call' = NoCall
    /\ ret' = NoRet
    /\ UNCHANGED <<config, scorer, model, saved, loaded>>

NextScorer == ScoreEmb \/ ScoreEmbSpo \/ Return

SpecScorer == InitScorer /\ [][NextScorer]_vars

\* the SPO-primitive score of one row triple
SpoScore(s, p, o) == primitive(<<s>>, <<p>>, <<o>>)[1]

IsScoreEmb(combine) == call.op = "score_emb" /\ call.combine = combine

\* C1: score_emb with combine="sp*" on s, p of n rows and o of n_o rows returns
\* an n x n_o matrix whose entry (i, j) is the SPO-primitive score of
\* (s_i, p_i, o_j).
C1_SpStar ==
    (IsScoreEmb("sp*") /\ scorer = "SpoScorer" /\ Len(call.s) = Len(call.p)) =>
        /\ ret.r.err = "none"
        /\ Len(ret.r.value) = Len(call.p)
        /\ \A i \in 1..Len(call.p) :
              /\ Len(ret.r.value[i]) = Len(call.o)
              /\ \A j \in 1..Len(call.o) :
                    ret.r.value[i][j] = SpoScore(call.s[i], call.p[i], call.o[j])

C1_Witness ==
    /\ IsScoreEmb("sp*") /\ scorer = "SpoScorer"
    /\ Len(call.s) = 2 /\ Len(call.p) = 2 /\ Len(call.o) = 2
    /\ call.s[1] # call.s[2] /\ call.o[1] # call.o[2]
    /\ ret.r.err = "none"

\* C2: score_emb with combine="*po" on p, o of n rows and s of n_s rows returns
\* an n x n_s matrix whose entry (i, j) is the SPO-primitive score of
\* (s_j, p_i, o_i).
C2_StarPo ==
    (IsScoreEmb("*po") /\ scorer = "SpoScorer" /\ Len(call.o) = Len(call.p)) =>
        /\ ret.r.err = "none"
        /\ Len(ret.r.value) = Len(call.p)
        /\ \A i \in 1..Len(call.p) :
              /\ Len(ret.r.value[i]) = Len(call.s)
              /\ \A j \in 1..Len(call.s) :
                    ret.r.value[i][j] = SpoScore(call.s[j], call.p[i], call.o[i])

C2_Witness ==
    /\ IsScoreEmb("*po") /\ scorer = "SpoScorer"
    /\ Len(call.s) = 2 /\ Len(call.p) = 2 /\ Len(call.o) = 2
    /\ call.s[1] # call.s[2] /\ call.o[1] # call.o[2]
    /\ ret.r.err = "none"

\* C5: score_emb with a combine other than "spo", "sp*", "*po" fails with an
\* unsupported-mode error whose message contains the mode value passed.
C5_ErrorNamesMode ==
    (call.op = "score_emb" /\ call.combine \notin {"spo", "sp*", "*po"}) =>
        /\ ret.r.err = "ValueError"
        /\ Mentions(ret.r.msg, call.combine)

\* the row counts break the requirement of the call's mode
Mismatch ==
    \/ call.combine = "spo" /\ (Len(call.s) # Len(call.p) \/ Len(call.o) # Len(call.p))
    \/ call.combine = "sp*" /\ Len(call.s) # Len(call.p)
    \/ call.combine = "*po" /\ Len(call.o) # Len(call.p)

\* C8: score_emb fails with an error and returns no score matrix whenever the
\* row counts violate the mode's requirement, before the primitive is invoked.
C8_MismatchFails ==
    (call.op = "score_emb" /\ Mismatch) =>
        /\ ret.r.err = "AssertionError"
        /\ ret.r.value = None
        /\ ret.prim = 0
        /\ ret.frames = 1

C8_Witness ==
    /\ IsScoreEmb("sp*") /\ scorer = "SpoScorer"
    /\ Len(call.s) > Len(call.p) /\ Len(call.o) = Len(call.p)
    /\ ret.r.err = "AssertionError"

\* C10: every call to score_emb and score_emb_spo terminates: a scorer that
\* overrides score_emb_spo runs the primitive once and never re-enters
\* score_emb, and the base class as written does not recurse between
\* score_emb and score_emb_spo until the stack is exhausted.
C10_Terminates ==
    (call.op \in {"score_emb", "score_emb_spo"}) =>
        /\ ret.r.err # "RecursionError"
        /\ ret.frames <= 2
        /\ ret.r.err = "none" => ret.prim = 1

\* ---------------------------------------------------- embedder construction
EKey == "m.entity_embedder"

RKey == "m.relation_embedder"

\* the default scope of the embedder type: its schema
Defaults ==
    <<Entry("lookup_embedder.dim", "int", "100"),
      Entry("lookup_embedder.initialize", "str", "normal")>>

\* custom options a configuration may give the entity embedder: a valid dim,
\* a dim of the wrong type, a valid initialize, a key the schema lacks
CustomChoices ==
    {Entry(EKey \o ".dim", "int", "200"), Entry(EKey \o ".dim", "str", "wide"),
     Entry(EKey \o ".initialize", "str", "uniform"),
     Entry(EKey \o ".dropout", "int", "0")}

\* the custom scopes: up to MaxCustom options, no key twice
CustomScopes ==
    {c \in UNION {[1..m -> CustomChoices] : m \in 0..MaxCustom} :
        \A i, j \in 1..Len(c) : i # j => c[i].key # c[j].key}

TypeEntries == {<<>>, <<Entry(EKey \o ".type", "str", "lookup_embedder")>>}

ClassEntries ==
    {<<>>, <<Entry("lookup_embedder.class_name", "str", "LookupEmbedder")>>,
     <<Entry("lookup_embedder.class_name", "str", "NoSuchEmbedder")>>}

MakeConfig(ty, custom, cls) ==
    <<Entry("model", "str", "m")>> \o ty \o custom
        \o <<Entry(RKey \o ".type", "str", "lookup_embedder")>> \o cls \o Defaults

Configs ==
    {MakeConfig(ty, c, cls) : ty \in TypeEntries, c \in CustomScopes, cls \in ClassEntries}

\* the tables random initialisation can give an embedder of vocab_size objects
InitTables(vocab_size) ==
    {[i \in 0..(vocab_size - 1) |-> i + 1], [i \in 0..(vocab_size - 1) |-> vocab_size - i]}

VocabSize(key) == IF key = EKey THEN NumEntities ELSE NumRelations

InitEmbedder ==
    /\ config \in Configs
    /\ scorer = None
    /\ model = None
    /\ saved = None
    /\ loaded = None
    /\ call = NoCall
    /\ ret = NoRet

BuiltRet(b) == [r |-> b.r, frames |-> 0, prim |-> 0, steps |-> b.steps]

\* the caller sees the constructor's result and the shared configuration
Outcome(b) ==
    /\ ret' = BuiltRet(b)
    /\ config' = b.config

\* KgeEmbedder.create(config, dataset, key, vocab_size)
Create ==
    /\ call = NoCall
    /\ \E key \in {EKey, RKey} : \E init \in InitTables(VocabSize(key)) :
        /\ call' = [op |-> "create", key |-> key, config |-> config]
        /\ Outcome(create(config, key, VocabSize(key), init))
        /\ UNCHANGED <<scorer, model, saved, loaded>>

\* direct instantiation of an embedder class: LookupEmbedder(config, dataset, key, n)
NewEmbedder ==
    /\ call = NoCall
    /\ \E key \in {EKey, RKey} : \E init \in InitTables(VocabSize(key)) :
        /\ call' = [op |-> "new", key |-> key, config |-> config]
        /\ Outcome(LookupEmbedder(config, key, VocabSize(key), init))
        /\ UNCHANGED <<scorer, model, saved, loaded>>

NextEmbedder == Create \/ NewEmbedder \/ Return

SpecEmbedder == InitEmbedder /\ [][NextEmbedder]_vars

\* the type of the embedder at key does not resolve to a class of kge.model
TypeResolutionFails(cfg, key) ==
    \/ ~has(cfg, key \o ".type")
    \/ ~has(cfg, get(cfg, key \o ".type").value.v \o ".class_name")
    \/ get(cfg, get(cfg, key \o ".type").value.v \o ".class_name").value.v
           \notin ModuleClasses

\* C6: KgeEmbedder.create fails with a configuration error that identifies the
\* offending configuration path in every type-resolution failure: <key>.type
\* missing, <type>.class_name missing, or the class name not in kge.model.
C6_CreateNamesPath ==
    (call.op = "create" /\ TypeResolutionFails(call.config, call.key)) =>
        /\ ret.r.err \in {"Exception", "ValueError"}
        /\ Mentions(ret.r.msg, call.key)

\* the custom options (other than type) of the scope at key that the default
\* schema of the embedder's type rejects, by name or by value type
Offending(cfg, key) ==
    LET ty == get(cfg, key \o ".type").value.v
        opts == flatten(cfg, key)
    IN  {opts[i].name : i \in {j \in 1..Len(opts) :
            /\ opts[j].name # "type"
            /\ \/ ~has(cfg, ty \o "." \o opts[j].name)
               \/ get(cfg, ty \o "." \o opts[j].name).value.t # opts[j].t}}

\* the call ran KgeEmbedder.__init__
RanInit ==
    \/ call.op = "new" /\ has(call.config, call.key \o ".type")
    \/ call.op = "create" /\ ~TypeResolutionFails(call.config, call.key)

Ran(step) == \E i \in 1..Len(ret.steps) : ret.steps[i] = step

\* C7: constructing a KgeEmbedder whose custom scope holds an option (other
\* than type) the default schema rejects fails with a configuration error
\* naming the configuration path and the offending key, before dim is
\* resolved or a table allocated; with every custom key valid construction
\* proceeds; the shared configuration is left unchanged.
C7_CustomOptionsVerified ==
    RanInit =>
        /\ config = call.config
        /\ IF Offending(call.config, call.key) # {}
           THEN /\ ret.r.err = "ValueError"
                /\ Mentions(ret.r.msg, call.key)
                /\ \E nm \in Offending(call.config, call.key) : Mentions(ret.r.msg, nm)
                /\ ~Ran("dim") /\ ~Ran("table")
           ELSE /\ ret.r.err = "none"
                /\ Ran("dim") /\ Ran("table")

\* a failing case with two offending keys, and a passing case with a custom
\* value that differs from the default
C7_Witness ==
    /\ RanInit
    /\ \/ Cardinality(Offending(call.config, call.key)) = 2 /\ ret.r.err = "ValueError"
       \/ /\ Offending(call.config, call.key) = {}
          /\ has(call.config, call.key \o ".dim")
          /\ ret.r.err = "none"

\* ---------------------------------------------------------------- KgeModel
\* an embedder class's embed(indexes): one table row per index, in order
embed(embedder, indexes) == [i \in 1..Len(indexes) |-> embedder.table[indexes[i]]]

\* an embedder class's embed_all(): the whole table, row i for object i
embed_all(embedder) == [i \in 1..embedder.vocab_size |-> embedder.table[i - 1]]

\* the model __init__ leaves: blank with the two embedders, r the outcome of
\* creating the relation embedder
with_embedders(blank, e, r) ==
    IF r.r.err # "none" THEN r
    ELSE Built(Ok([blank EXCEPT !.entity_embedder = e.r.value,
                                !.relation_embedder = r.r.value]),
               e.steps \o r.steps, r.config)

\* __init__ after the entity embedder's creation, e its outcome
with_entity(blank, e, name, r_init) ==
    IF e.r.err # "none" THEN e
    ELSE with_embedders(blank, e,
                        create(e.config, name \o ".relation_embedder", NumRelations,
                               r_init))

\* the fields __init__ sets before the embedders; the initialize_embedders
\* field remembers the argument
blank_model(cls, initialize_embedders) ==
    [entity_embedder |-> None, relation_embedder |-> None, scorer |-> cls,
     meta |-> <<>>, initialize_embedders |-> initialize_embedders]

\* KgeModel.__init__(config, dataset, scorer, initialize_embedders)
KgeModel_init(cfg, cls, initialize_embedders, e_init, r_init) ==
    IF ~initialize_embedders
    THEN Built(Ok(blank_model(cls, initialize_embedders)), <<>>, cfg)
    ELSE with_entity(blank_model(cls, initialize_embedders),
                     create(cfg, get(cfg, "model").value.v \o ".entity_embedder",
                            NumEntities, e_init),
                     get(cfg, "model").value.v, r_init)

get_s_embedder(m) == m.entity_embedder

get_o_embedder(m) == m.entity_embedder

get_p_embedder(m) == m.relation_embedder

\* a method called on None
NoneType(attr) ==
    Done(Raise("AttributeError", <<"'NoneType' object has no attribute '", attr, "'">>),
         0, 0)

\* KgeModel.score_spo(s, p, o)
score_spo(m, s, p, o) ==
    IF get_s_embedder(m) = None \/ get_p_embedder(m) = None THEN NoneType("embed")
    ELSE score_emb(m.scorer, embed(get_s_embedder(m), s), embed(get_p_embedder(m), p),
                   embed(get_o_embedder(m), o), "spo", 1)

\* KgeModel.score_sp(s, p, o=None)
score_sp(m, s, p, o) ==
    IF get_s_embedder(m) = None \/ get_p_embedder(m) = None THEN NoneType("embed")
    ELSE LET o_emb == IF o = None THEN embed_all(get_o_embedder(m))
                      ELSE embed(get_o_embedder(m), o)
         IN  score_emb(m.scorer, embed(get_s_embedder(m), s),
                       embed(get_p_embedder(m), p), o_emb, "sp*", 1)

\* KgeModel.score_po(p, o, s=None)
score_po(m, p, o, s) ==
    IF get_s_embedder(m) = None THEN
        IF s = None THEN NoneType("embed_all") ELSE NoneType("embed")
    ELSE IF get_p_embedder(m) = None THEN NoneType("embed")
    ELSE LET s_emb == IF s = None THEN embed_all(get_s_embedder(m))
                      ELSE embed(get_s_embedder(m), s)
         IN  score_emb(m.scorer, s_emb, embed(get_p_embedder(m), p),
                       embed(get_o_embedder(m), o), "*po", 1)

\* the two halves joined in the other order
sp_po_cat_mut(sp_scores, po_scores) == cat(po_scores, sp_scores)

\* torch.cat((sp_scores, po_scores), dim=1)
sp_po_cat(sp_scores, po_scores) == cat(sp_scores, po_scores)

\* the two scorer calls of score_sp_po, in order; an exception of the first
\* ends the method
sp_then_po(sp, po) ==
    IF sp.r.err # "none" THEN sp
    ELSE IF po.r.err # "none" THEN Done(po.r, po.frames, sp.prim + po.prim)
    ELSE Done(Ok(sp_po_cat(sp.r.value, po.r.value)),
              IF sp.frames > po.frames THEN sp.frames ELSE po.frames,
              sp.prim + po.prim)

\* KgeModel.score_sp_po(s, p, o)
score_sp_po(m, s, p, o) ==
    IF get_s_embedder(m) = None \/ get_p_embedder(m) = None THEN NoneType("embed")
    ELSE
    LET s_emb == embed(get_s_embedder(m), s)
        p_emb == embed(get_p_embedder(m), p)
        o_emb == embed(get_o_embedder(m), o)
    IN  IF get_s_embedder(m) = get_o_embedder(m)
        THEN LET all_entities == embed_all(get_s_embedder(m))
             IN  sp_then_po(score_emb(m.scorer, s_emb, p_emb, all_entities, "sp*", 1),
                            score_emb(m.scorer, all_entities, p_emb, o_emb, "*po", 1))
        ELSE LET all_objects == embed_all(get_o_embedder(m))
                 all_subjects == embed_all(get_s_embedder(m))
             IN  sp_then_po(score_emb(m.scorer, s_emb, p_emb, all_objects, "sp*", 1),
                            score_emb(m.scorer, all_subjects, p_emb, o_emb, "*po", 1))

\* torch.nn.Module.state_dict(): the parameters of the sub-modules present,
\* by name
state_dict(m) ==
    [k \in {nm \in {"entity_embedder", "relation_embedder"} : m[nm] # None} |->
        m[k].table]

\* KgeBase.save()
save(m) == [state_dict |-> state_dict(m), meta |-> m.meta]

\* torch.nn.Module.load_state_dict(sd), strict: the names must be the
\* module's own; every parameter is then copied in
load_state_dict(m, sd) ==
    IF DOMAIN sd # DOMAIN state_dict(m)
    THEN [err |-> "RuntimeError",
          msg |-> <<"Error(s) in loading state_dict: missing or unexpected key(s)">>,
          value |-> m]
    ELSE Ok([k \in DOMAIN m |->
                IF k \in DOMAIN sd THEN [m[k] EXCEPT !.table = sd[k]] ELSE m[k]])

\* self.meta = savepoint[1], unless load_state_dict raised
set_meta(r, savepoint) ==
    IF r.err # "none" THEN r ELSE Ok([r.value EXCEPT !.meta = savepoint.meta])

\* load without its load_state_dict call
load_mut(m, savepoint) == Ok([m EXCEPT !.meta = savepoint.meta])

\* KgeBase.load(savepoint): the module after the call, also when it raises
load(m, savepoint) ==
    set_meta(load_state_dict(m, savepoint.state_dict), savepoint)

\* ------------------------------------------------------------ facade calls
\* batch sizes of the index sequences given to the facade
BatchSizes == {1, 2}

Entities == 0..(NumEntities - 1)

Relations == 0..(NumRelations - 1)

EntityBatches == UNION {[1..n -> Entities] : n \in BatchSizes}

\* a configuration that resolves, and one whose entity embedder has a custom
\* option the schema lacks
ModelConfigs ==
    {MakeConfig(<<Entry(EKey \o ".type", "str", "lookup_embedder")>>, c,
                <<Entry("lookup_embedder.class_name", "str", "LookupEmbedder")>>) :
        c \in {<<>>, <<Entry(EKey \o ".dropout", "int", "0")>>}}

InitModel ==
    /\ config \in ModelConfigs
    /\ scorer \in ScorerClasses
    /\ model = None
    /\ saved = None
    /\ loaded = None
    /\ call = NoCall
    /\ ret = NoRet

\* the caller's model variable is bound when the constructor returns
Constructed(b) ==
    /\ Outcome(b)
    /\ model' = IF b.r.err = "none" THEN b.r.value ELSE model
    /\ loaded' = IF b.r.err = "none" THEN None ELSE loaded

\* KgeModel(config, dataset, scorer, initialize_embedders)
Construct ==
    /\ call = NoCall
    /\ \E flag \in BOOLEAN, e_init \in InitTables(NumEntities),
          r_init \in InitTables(NumRelations) :
        /\ call' = [op |-> "init", initialize_embedders |-> flag]
        /\ Constructed(KgeModel_init(config, scorer, flag, e_init, r_init))
        /\ UNCHANGED <<scorer, saved>>

\* savepoint = model.save(); source remembers the model that was saved
Save ==
    /\ call = NoCall
    /\ model # None
    /\ call' = [op |-> "save"]
    /\ ret' = Done(Ok(save(model)), 0, 0)
    /\ saved' = [savepoint |-> save(model), source |-> model]
    /\ UNCHANGED <<config, scorer, model, loaded>>

\* load returns nothing; r.value is the module it leaves
Loaded(r) ==
    /\ ret' = Done([r EXCEPT !.value = None], 0, 0)
    /\ model' = r.value

\* model.load(savepoint) with the savepoint saved last; loaded remembers the
\* savepoint, the model it was saved from and the model load was called on
Load ==
    /\ call = NoCall
    /\ model # None
    /\ saved # None
    /\ call' = [op |-> "load"]
    /\ Loaded(load(model, saved.savepoint))
    /\ loaded' = [savepoint |-> saved.savepoint, source |-> saved.source,
                  before |-> model]
    /\ UNCHANGED <<config, scorer, saved>>

ScoreSpo ==
    /\ call = NoCall
    /\ model # None
    /\ \E n \in BatchSizes : \E s \in [1..n -> Entities], p \in [1..n -> Relations],
                                o \in [1..n -> Entities] :
        /\ call' = [op |-> "score_spo", s |-> s, p |-> p, o |-> o]
        /\ ret' = score_spo(model, s, p, o)
    /\ UNCHANGED <<config, scorer, model, saved, loaded>>

ScoreSp ==
    /\ call = NoCall
    /\ model # None
    /\ \E n \in BatchSizes : \E s \in [1..n -> Entities], p \in [1..n -> Relations],
                                o \in {None} \cup EntityBatches :
        /\ call' = [op |-> "score_sp", s |-> s, p |-> p, o |-> o]
        /\ ret' = score_sp(model, s, p, o)
    /\ UNCHANGED <<config, scorer, model, saved, loaded>>

ScorePo ==
    /\ call = NoCall
    /\ model # None
    /\ \E n \in BatchSizes : \E p \in [1..n -> Relations], o \in [1..n -> Entities],
                                s \in {None} \cup EntityBatches :
        /\ call' = [op |-> "score_po", s |-> s, p |-> p, o |-> o]
        /\ ret' = score_po(model, p, o, s)
    /\ UNCHANGED <<config, scorer, model, saved, loaded>>

ScoreSpPo ==
    /\ call = NoCall
    /\ model # None
    /\ \E n \in BatchSizes : \E s \in [1..n -> Entities], p \in [1..n -> Relations],
                                o \in [1..n -> Entities] :
        /\ call' = [op |-> "score_sp_po", s |-> s, p |-> p, o |-> o]
        /\ ret' = score_sp_po(model, s, p, o)
    /\ UNCHANGED <<config, scorer, model, saved, loaded>>

NextModel ==
    Construct \/ Save \/ Load \/ ScoreSpo \/ ScoreSp \/ ScorePo \/ ScoreSpPo \/ Return

SpecModel == InitModel /\ [][NextModel]_vars

\* the live model has both embedders and a scorer that implements the primitive
Scoring(op) ==
    /\ call.op = op
    /\ model.entity_embedder # None /\ model.relation_embedder # None
    /\ model.scorer = "SpoScorer"

\* the embedding rows of entity e and relation r in the live model
EntityRow(e) == model.entity_embedder.table[e]

RelationRow(r) == model.relation_embedder.table[r]

\* C3: score_sp_po(s, p, o) has shape (n, 2E); columns [0, E) equal
\* score_sp(s, p) and columns [E, 2E) equal score_po(p, o): entry (i, j) is the
\* score of (s_i, p_i, j) for j < E and of (j - E, p_i, o_i) for j >= E.
C3_SpPoHalves ==
    Scoring("score_sp_po") =>
        LET n == Len(call.p)
            E == NumEntities
            sp == score_sp(model, call.s, call.p, None).r.value
            po == score_po(model, call.p, call.o, None).r.value
        IN  /\ ret.r.err = "none"
            /\ Len(ret.r.value) = n
            /\ \A i \in 1..n :
                  /\ Len(ret.r.value[i]) = 2 * E
                  /\ SubSeq(ret.r.value[i], 1, E) = sp[i]
                  /\ SubSeq(ret.r.value[i], E + 1, 2 * E) = po[i]
                  /\ \A j \in 0..(2 * E - 1) :
                        ret.r.value[i][j + 1] =
                            IF j < E
                            THEN SpoScore(EntityRow(call.s[i]), RelationRow(call.p[i]),
                                          EntityRow(j))
                            ELSE SpoScore(EntityRow(j - E), RelationRow(call.p[i]),
                                          EntityRow(call.o[i]))

C3_Witness ==
    /\ Scoring("score_sp_po")
    /\ Len(call.p) = 2
    /\ call.s[1] # call.s[2] /\ call.o[1] # call.o[2] /\ call.s[1] # call.o[1]
    /\ ret.r.err = "none"

\* C4: score_spo(s, p, o) on index sequences of length n returns a result of
\* shape (n,), a length-n vector and not an n x 1 matrix, whose i-th entry is
\* the SPO-primitive score of the embedding rows of (s_i, p_i, o_i).
C4_SpoVector ==
    Scoring("score_spo") =>
        /\ ret.r.err = "none"
        /\ ret.r.value =
              [i \in 1..Len(call.p) |->
                  SpoScore(EntityRow(call.s[i]), RelationRow(call.p[i]),
                           EntityRow(call.o[i]))]

ScoreOps == {"score_spo", "score_sp", "score_po", "score_sp_po"}

\* what model m returns for the call in progress
Answer(m) ==
    IF call.op = "score_spo" THEN score_spo(m, call.s, call.p, call.o)
    ELSE IF call.op = "score_sp" THEN score_sp(m, call.s, call.p, call.o)
    ELSE IF call.op = "score_po" THEN score_po(m, call.p, call.o, call.s)
    ELSE score_sp_po(m, call.s, call.p, call.o)

\* the live model was last given load(bundle), bundle the save() of a fully
\* constructed model
LoadedFull ==
    /\ model # None
    /\ loaded # None
    /\ loaded.source.initialize_embedders

\* the live model has both embedders and answers as the saved model does
SameAsSaved ==
    /\ model.entity_embedder # None /\ model.relation_embedder # None
    /\ call.op \in ScoreOps => ret = Answer(loaded.source)

\* C9: a KgeModel constructed with initialize_embedders=False and then given
\* load(bundle), bundle the save() of a fully constructed model of the same
\* configuration, has both embedders and returns the saved model's scores for
\* score_spo, score_sp, score_po and score_sp_po.
C9_LoadIntoSkipped ==
    (LoadedFull /\ ~model.initialize_embedders) => SameAsSaved

\* C9 as amended: a fully constructed KgeModel given load(bundle) returns the
\* saved model's scores; one constructed with initialize_embedders=False fails
\* load(bundle) with the state_dict's key error and keeps no embedders.
C9_LoadRoundTrip ==
    LoadedFull =>
        IF model.initialize_embedders
        THEN /\ SameAsSaved
             /\ call.op = "load" => ret.r.err = "none"
        ELSE /\ model.entity_embedder = None /\ model.relation_embedder = None
             /\ call.op = "load" => ret.r.err = "RuntimeError"
             /\ call.op \in ScoreOps => ret.r.err = "AttributeError"

\* a score from a model whose tables came from a bundle saved by a model with
\* other tables
C9_Witness ==
    /\ LoadedFull
    /\ model.initialize_embedders
    /\ call.op = "score_sp_po"
    /\ model.scorer = "SpoScorer"
    /\ ret.r.err = "none"
    /\ loaded.before.initialize_embedders
    /\ state_dict(loaded.before) # loaded.savepoint.state_dict

====
